---------------------------- MODULE Spec2Model ----------------------------
(***************************************************************************)
(* Luz Nocturna: the automatic schedule engine (models.Scheduler), its     *)
(* time-window / interpolation arithmetic, and the controller that drives  *)
(* it.  Wall-clock strings "HH:MM" are tuples of one-character strings;    *)
(* float64 temperatures and progress values are exact rationals            *)
(* [n |-> numerator, d |-> denominator] in lowest terms.                   *)
(***************************************************************************)
EXTENDS Integers, Sequences, FiniteSets, TLC

(***************************************************************************)
(* Program constants                                                       *)
(***************************************************************************)
MinutesPerDay == 24 * 60

MinTemp == 3000

MaxTemp == 6500

DefaultTemperature == 4500

(***************************************************************************)
(* Rational arithmetic standing for float64                                *)
(***************************************************************************)
Abs(x) == IF x < 0 THEN -x ELSE x

RECURSIVE GCD(_, _)
GCD(a, b) == IF b = 0 THEN a ELSE GCD(b, a % b)

Rat(num, den) ==
    LET g == GCD(Abs(num), den)
    IN  [n |-> num \div g, d |-> den \div g]

RatInt(k) == [n |-> k, d |-> 1]

\* Go's % on int: the remainder takes the sign of the dividend
GoRem(a, b) == IF a >= 0 THEN a % b ELSE -((-a) % b)

RatLe(a, b) == a.n * b.d <= b.n * a.d

RatLt(a, b) == a.n * b.d < b.n * a.d

(***************************************************************************)
(* "HH:MM" formatting and scanning                                         *)
(***************************************************************************)
DigitChars == <<"0", "1", "2", "3", "4", "5", "6", "7", "8", "9">>

IsDigit(c) == \E i \in 1..10 : DigitChars[i] = c

DigitVal(c) == (CHOOSE i \in 1..10 : DigitChars[i] = c) - 1

\* fmt.Sprintf("%02d:%02d", hour, minute)
FormatTime(hour, minute) ==
    << DigitChars[(hour \div 10) + 1], DigitChars[(hour % 10) + 1], ":",
       DigitChars[(minute \div 10) + 1], DigitChars[(minute % 10) + 1] >>

RECURSIVE SkipSpace(_, _)
SkipSpace(str, i) ==
    IF i <= Len(str) /\ str[i] = " " THEN SkipSpace(str, i + 1) ELSE i

RECURSIVE ScanDigits(_, _, _)
ScanDigits(str, i, acc) ==
    IF i <= Len(str) /\ IsDigit(str[i])
    THEN ScanDigits(str, i + 1, acc * 10 + DigitVal(str[i]))
    ELSE [val |-> acc, pos |-> i]

\* the %d verb of fmt.Sscanf once leading blanks are skipped: optional sign,
\* at least one digit; an underscore is taken into the number, which then
\* fails to convert
ScanSigned(str, j) ==
    LET neg == j <= Len(str) /\ str[j] = "-"
        k   == IF j <= Len(str) /\ str[j] \in {"+", "-"} THEN j + 1 ELSE j
    IN  IF k > Len(str) \/ ~IsDigit(str[k])
        THEN [ok |-> FALSE, val |-> 0, pos |-> k]
        ELSE LET r == ScanDigits(str, k, 0)
             IN  IF r.pos <= Len(str) /\ str[r.pos] = "_"
                 THEN [ok |-> FALSE, val |-> 0, pos |-> r.pos]
                 ELSE [ok |-> TRUE, val |-> IF neg THEN -r.val ELSE r.val, pos |-> r.pos]

ScanInt(str, i) == ScanSigned(str, SkipSpace(str, i))

\* variant: the minutes are scanned after the first colon even when the hours
\* were not
ScanMinutes_KeepsGoing(timeStr, h) ==
    LET colons == { i \in 1..Len(timeStr) : timeStr[i] = ":" }
        first  == CHOOSE i \in colons : \A j \in colons : i <= j
        m      == IF colons # {} THEN ScanInt(timeStr, first + 1)
                  ELSE [ok |-> FALSE, val |-> 0, pos |-> 1]
    IN  (IF h.ok THEN h.val ELSE 0) * 60 + (IF m.ok THEN m.val ELSE 0)

\* the rest of "%d:%d" after the hours h: the literal colon, then the minutes;
\* what is not scanned stays 0
ScanMinutes(timeStr, h) ==
    LET colon == h.ok /\ h.pos <= Len(timeStr) /\ timeStr[h.pos] = ":"
        m     == IF colon THEN ScanInt(timeStr, h.pos + 1)
                 ELSE [ok |-> FALSE, val |-> 0, pos |-> h.pos]
    IN  (IF h.ok THEN h.val ELSE 0) * 60 + (IF m.ok THEN m.val ELSE 0)

\* fmt.Sscanf(timeStr, "%d:%d", &hours, &minutes); return hours*60 + minutes
timeToMinutes(timeStr) == ScanMinutes(timeStr, ScanInt(timeStr, 1))

(***************************************************************************)
(* Scheduler arithmetic                                                    *)
(***************************************************************************)
\* variant: the end boundary taken as exclusive
isNightPeriod_ExclusiveEnd(currentMinutes, startMinutes, endMinutes) ==
    IF startMinutes > endMinutes
    THEN currentMinutes >= startMinutes \/ currentMinutes < endMinutes
    ELSE currentMinutes >= startMinutes /\ currentMinutes < endMinutes

\* the night-window test of calculateTemperatureForTime
isNightPeriod(currentMinutes, startMinutes, endMinutes) ==
    IF startMinutes > endMinutes
    THEN currentMinutes >= startMinutes \/ currentMinutes <= endMinutes
    ELSE currentMinutes >= startMinutes /\ currentMinutes <= endMinutes

\* variant: the wrapped test applied to every window
isInTransitionPeriod_AlwaysWrapped(current, start, end, crossesMidnight) ==
    current >= start \/ current <= end

isInTransitionPeriod(current, start, end, crossesMidnight) ==
    IF crossesMidnight /\ start > end
    THEN current >= start \/ current <= end
    ELSE current >= start /\ current <= end

\* variant: elapsed time never carried across midnight
calculateTransitionProgress_NoWrapElapsed(current, start, end, crossesMidnight) ==
    LET wraps    == crossesMidnight /\ start > end
        duration == IF wraps THEN (MinutesPerDay - start) + end ELSE end - start
        elapsed  == current - start
    IN  IF duration <= 0 THEN RatInt(1)
        ELSE IF elapsed < 0 THEN RatInt(0)
        ELSE IF elapsed > duration THEN RatInt(1)
        ELSE Rat(elapsed, duration)

calculateTransitionProgress(current, start, end, crossesMidnight) ==
    LET wraps    == crossesMidnight /\ start > end
        duration == IF wraps THEN (MinutesPerDay - start) + end ELSE end - start
        elapsed  == IF wraps
                    THEN IF current >= start THEN current - start
                         ELSE (MinutesPerDay - start) + current
                    ELSE current - start
    IN  IF duration <= 0 THEN RatInt(1)
        ELSE IF elapsed < 0 THEN RatInt(0)
        ELSE IF elapsed > duration THEN RatInt(1)
        ELSE Rat(elapsed, duration)

\* variant: the target is added instead of the difference
interpolateTemperature_AddsTarget(from, to, progress) ==
    Rat(from * progress.d + to * progress.n, progress.d)

\* from + (to-from)*progress
interpolateTemperature(from, to, progress) ==
    Rat(from * progress.d + (to - from) * progress.n, progress.d)

\* calculateTemperatureForTime once the three times are in minutes
TemperatureAt(schedule, currentMinutes, startMinutes, endMinutes) ==
    LET crosses           == startMinutes > endMinutes
        transitionMinutes == schedule.TransitionTime
        entryEnd          == GoRem(startMinutes + transitionMinutes, MinutesPerDay)
        exitStart         == GoRem(endMinutes - transitionMinutes + MinutesPerDay, MinutesPerDay)
    IN  IF isNightPeriod(currentMinutes, startMinutes, endMinutes)
        THEN IF transitionMinutes > 0
                /\ isInTransitionPeriod(currentMinutes, startMinutes, entryEnd, crosses)
             THEN interpolateTemperature(schedule.DayTemp, schedule.NightTemp,
                      calculateTransitionProgress(currentMinutes, startMinutes, entryEnd, crosses))
             ELSE RatInt(schedule.NightTemp)
        ELSE IF transitionMinutes > 0
                /\ isInTransitionPeriod(currentMinutes, exitStart, endMinutes, crosses)
             THEN interpolateTemperature(schedule.NightTemp, schedule.DayTemp,
                      calculateTransitionProgress(currentMinutes, exitStart, endMinutes, crosses))
             ELSE RatInt(schedule.DayTemp)

calculateTemperatureForTime(schedule, currentTime) ==
    TemperatureAt(schedule, timeToMinutes(currentTime),
                  timeToMinutes(schedule.StartTime), timeToMinutes(schedule.EndTime))

(***************************************************************************)
(* Input domains                                                           *)
(***************************************************************************)
\* every well-formed wall-clock string
ClockStrings == { FormatTime(h, m) : h \in 0..23, m \in 0..59 }

\* night windows <<StartTime, EndTime>>: across midnight, within a day,
\* ending just before midnight, shorter than the transition, empty
ScheduleWindows ==
    { << FormatTime(20, 0),  FormatTime(7, 0)   >>,
      << FormatTime(23, 50), FormatTime(7, 0)   >>,
      << FormatTime(23, 30), FormatTime(23, 59) >>,
      << FormatTime(8, 0),   FormatTime(8, 10)  >>,
      << FormatTime(0, 0),   FormatTime(6, 0)   >>,
      << FormatTime(0, 5),   FormatTime(0, 20)  >>,
      << FormatTime(22, 0),  FormatTime(0, 10)  >>,
      << FormatTime(12, 0),  FormatTime(12, 0)  >> }

\* <<NightTemp, DayTemp>>
TemperaturePairs == { <<3000, 6500>>, <<3200, 6500>>, <<2000, 7000>>, <<5000, 4000>> }

TransitionTimes == { 0, 15, 30, 60 }

Schedules ==
    { [StartTime |-> w[1], EndTime |-> w[2], NightTemp |-> t[1], DayTemp |-> t[2],
       TransitionTime |-> tr] :
      w \in ScheduleWindows, t \in TemperaturePairs, tr \in TransitionTimes }

\* NewAppConfig().Schedule
DefaultSchedule ==
    [StartTime |-> FormatTime(20, 0), EndTime |-> FormatTime(7, 0),
     NightTemp |-> 3200, DayTemp |-> 6500, TransitionTime |-> 30]

\* minutes handed to calculateTransitionProgress
ProgressMinutes == { 0, 10, 20, 390, 405, 420, 1200, 1215, 1230, 1430, 1439 }

(***************************************************************************)
(* State                                                                   *)
(***************************************************************************)
VARIABLES
    config,         \* *AppConfig shared by controller and scheduler
    isRunning,      \* Scheduler.isRunning
    loops,          \* the goroutines spawned by Start, by spawn order
    ui,             \* the foreground thread: where it is in a controller call
    applies,        \* the invocations of onApply, oldest first
    now,            \* the wall clock read by time.Now()
    nlTemperature,  \* NightLightConfig.Temperature
    display,        \* the temperature the gamma manager last put on the display
    call,           \* the last direct call of a pure function and its result
    gm              \* the GammaManager: its protocol and its monitor goroutines

vars == << config, isRunning, loops, ui, applies, now, nlTemperature, display, call, gm >>

(***************************************************************************)
(* Bounds                                                                  *)
(***************************************************************************)
MaxLoops == 2

MaxApplies == 2

LoopIds == 1..MaxLoops

\* NewScheduler: not running, no goroutine; the controller's foreground idle
NoLoops == [l \in LoopIds |-> [pc |-> "none", tick |-> FALSE]]

IdleUi(schedule) == [pc |-> "idle", op |-> "none", early |-> FALSE, pending |-> schedule]

\* GammaManager.disableSystemNightLight ends with go gm.maintainExclusiveControl(),
\* a goroutine that ranges over its ticker for ever
disableSystemNightLight(manager) == [manager EXCEPT !.monitors = @ + 1]

\* NewGammaManager on a session of the given protocol
NewGammaManager(protocol) ==
    disableSystemNightLight([protocol |-> protocol, monitors |-> 0])

\* the scheduler as NewScheduler leaves it, on an X11 session (where
\* ApplyTemperature spawns nothing)
StoppedScheduler(schedule) ==
    /\ config = [ScheduleEnabled |-> FALSE, Schedule |-> schedule]
    /\ isRunning = FALSE
    /\ loops = NoLoops
    /\ ui = IdleUi(schedule)
    /\ applies = << >>
    /\ now = [hour |-> 12, minute |-> 0]
    /\ nlTemperature = RatInt(DefaultTemperature)
    /\ display = RatInt(MaxTemp)
    /\ gm = NewGammaManager("x11")

\* the error value of a call that succeeds
NoError == "nil"

(***************************************************************************)
(* SpecCalc: calculateTemperatureForTime over schedules and clock strings  *)
(***************************************************************************)
InitCalc ==
    /\ \E schedule \in Schedules \cup {DefaultSchedule} : StoppedScheduler(schedule)
    /\ call = [fn |-> "none"]

CallCalculateTemperature(currentTime) ==
    /\ call.fn = "none"
    /\ call' = [fn     |-> "calculateTemperatureForTime",
                time   |-> currentTime,
                night  |-> isNightPeriod(timeToMinutes(currentTime),
                                         timeToMinutes(config.Schedule.StartTime),
                                         timeToMinutes(config.Schedule.EndTime)),
                result |-> calculateTemperatureForTime(config.Schedule, currentTime)]
    /\ UNCHANGED << config, isRunning, loops, ui, applies, now, nlTemperature, display, gm >>

NextCalc == \E currentTime \in ClockStrings : CallCalculateTemperature(currentTime)

SpecCalc == InitCalc /\ [][NextCalc]_vars

(***************************************************************************)
(* SpecProgress: calculateTransitionProgress over its four arguments       *)
(***************************************************************************)
InitProgress ==
    /\ StoppedScheduler(DefaultSchedule)
    /\ call = [fn |-> "none"]

CallTransitionProgress(current, start, end, crossesMidnight) ==
    /\ call.fn = "none"
    /\ call' = [fn      |-> "calculateTransitionProgress",
                current |-> current, start |-> start, end |-> end,
                crossesMidnight |-> crossesMidnight,
                result  |-> calculateTransitionProgress(current, start, end, crossesMidnight)]
    /\ UNCHANGED << config, isRunning, loops, ui, applies, now, nlTemperature, display, gm >>

NextProgress ==
    \E current \in ProgressMinutes, start \in ProgressMinutes, end \in ProgressMinutes,
       crossesMidnight \in BOOLEAN :
        CallTransitionProgress(current, start, end, crossesMidnight)

SpecProgress == InitProgress /\ [][NextProgress]_vars

(***************************************************************************)
(* SpecParse: timeToMinutes over well-formed and malformed strings         *)
(***************************************************************************)
\* strings that are not "HH:MM"
MalformedTimes ==
    { << >>,
      <<"a", "b", "c">>,
      <<"a", "b", ":", "c", "d">>,
      <<":", "3", "0">>,
      <<"1", "2">>,
      <<"1", "2", ":">>,
      <<"1", "2", ":", "x", "x">>,
      <<"1", "2", ":", "3", "x">>,
      <<"1", "2", " ", ":", "3", "0">>,
      <<"1", "2", ":", " ", "3", "0">>,
      <<" ", "9", ":", "0", "5">>,
      <<"7", ":", "5">>,
      <<"2", "0", ":", "0">>,
      <<"2", "5", ":", "9", "9">>,
      <<"-", "1", ":", "3", "0">>,
      <<"1", "_", "2", ":", "3", "0">>,
      <<"1", "2", ":", "3", "_", "0">>,
      <<"1", "2", "h", "3", "0">> }

InitParse ==
    /\ StoppedScheduler(DefaultSchedule)
    /\ call = [fn |-> "none"]

CallTimeToMinutes(timeStr) ==
    /\ call.fn = "none"
    /\ call' = [fn |-> "timeToMinutes", time |-> timeStr, result |-> timeToMinutes(timeStr)]
    /\ UNCHANGED << config, isRunning, loops, ui, applies, now, nlTemperature, display, gm >>

NextParse == \E timeStr \in ClockStrings \cup MalformedTimes : CallTimeToMinutes(timeStr)

SpecParse == InitParse /\ [][NextParse]_vars

(***************************************************************************)
(* SpecNext: GetNextScheduleChange over configurations and instants        *)
(***************************************************************************)
\* parseTimeToday: minutes since today's midnight of the instant time.Date
\* builds from the scanned hours and minutes
parseTimeToday(timeStr) == ScanMinutes(timeStr, ScanInt(timeStr, 1))

\* variant: no test of ScheduleEnabled
GetNextScheduleChange_NoEnabledCheck(cfg, nowMinutes) ==
    LET startTime == parseTimeToday(cfg.Schedule.StartTime)
        endToday  == parseTimeToday(cfg.Schedule.EndTime)
        endTime   == IF endToday < startTime THEN endToday + MinutesPerDay ELSE endToday
    IN  IF nowMinutes < startTime
        THEN [description |-> "Inicio filtro nocturno",
              temp |-> RatInt(cfg.Schedule.NightTemp), duration |-> startTime - nowMinutes]
        ELSE IF nowMinutes < endTime
        THEN [description |-> "Fin filtro nocturno",
              temp |-> RatInt(cfg.Schedule.DayTemp), duration |-> endTime - nowMinutes]
        ELSE [description |-> "Inicio filtro nocturno",
              temp |-> RatInt(cfg.Schedule.NightTemp),
              duration |-> startTime + MinutesPerDay - nowMinutes]

\* variant: the end is never moved to the next day
GetNextScheduleChange_EndToday(cfg, nowMinutes) ==
    LET startTime == parseTimeToday(cfg.Schedule.StartTime)
        endTime   == parseTimeToday(cfg.Schedule.EndTime)
    IN  IF ~cfg.ScheduleEnabled
        THEN [description |-> "Programación deshabilitada",
              temp |-> RatInt(cfg.LastTemperature), duration |-> 0]
        ELSE IF nowMinutes < startTime
        THEN [description |-> "Inicio filtro nocturno",
              temp |-> RatInt(cfg.Schedule.NightTemp), duration |-> startTime - nowMinutes]
        ELSE IF nowMinutes < endTime
        THEN [description |-> "Fin filtro nocturno",
              temp |-> RatInt(cfg.Schedule.DayTemp), duration |-> endTime - nowMinutes]
        ELSE [description |-> "Inicio filtro nocturno",
              temp |-> RatInt(cfg.Schedule.NightTemp),
              duration |-> startTime + MinutesPerDay - nowMinutes]

\* variant: after the end the next start is looked for today
GetNextScheduleChange_StartToday(cfg, nowMinutes) ==
    LET startTime == parseTimeToday(cfg.Schedule.StartTime)
        endToday  == parseTimeToday(cfg.Schedule.EndTime)
        endTime   == IF endToday < startTime THEN endToday + MinutesPerDay ELSE endToday
    IN  IF ~cfg.ScheduleEnabled
        THEN [description |-> "Programación deshabilitada",
              temp |-> RatInt(cfg.LastTemperature), duration |-> 0]
        ELSE IF nowMinutes < startTime
        THEN [description |-> "Inicio filtro nocturno",
              temp |-> RatInt(cfg.Schedule.NightTemp), duration |-> startTime - nowMinutes]
        ELSE IF nowMinutes < endTime
        THEN [description |-> "Fin filtro nocturno",
              temp |-> RatInt(cfg.Schedule.DayTemp), duration |-> endTime - nowMinutes]
        ELSE [description |-> "Inicio filtro nocturno",
              temp |-> RatInt(cfg.Schedule.NightTemp),
              duration |-> startTime - nowMinutes]

\* Scheduler.GetNextScheduleChange at the instant nowMinutes after today's
\* midnight; the duration is in minutes
GetNextScheduleChange(cfg, nowMinutes) ==
    LET startTime == parseTimeToday(cfg.Schedule.StartTime)
        endToday  == parseTimeToday(cfg.Schedule.EndTime)
        endTime   == IF endToday < startTime THEN endToday + MinutesPerDay ELSE endToday
    IN  IF ~cfg.ScheduleEnabled
        THEN [description |-> "Programación deshabilitada",
              temp |-> RatInt(cfg.LastTemperature), duration |-> 0]
        ELSE IF nowMinutes < startTime
        THEN [description |-> "Inicio filtro nocturno",
              temp |-> RatInt(cfg.Schedule.NightTemp), duration |-> startTime - nowMinutes]
        ELSE IF nowMinutes < endTime
        THEN [description |-> "Fin filtro nocturno",
              temp |-> RatInt(cfg.Schedule.DayTemp), duration |-> endTime - nowMinutes]
        ELSE [description |-> "Inicio filtro nocturno",
              temp |-> RatInt(cfg.Schedule.NightTemp),
              duration |-> startTime + MinutesPerDay - nowMinutes]

\* the schedules GetNextScheduleChange is called on
PreviewSchedules ==
    { [StartTime |-> w[1], EndTime |-> w[2], NightTemp |-> p[1], DayTemp |-> p[2],
       TransitionTime |-> t] :
      w \in ScheduleWindows, p \in { <<3200, 6500>>, <<2000, 7000>> }, t \in { 0, 30 } }

\* AppConfig.LastTemperature
LastTemperatures == { 3000, 4500 }

\* the scheduler as GetNextScheduleChange can find it: stopped, or running
\* with its loop at the select
InitNext ==
    /\ \E schedule \in PreviewSchedules, enabled \in BOOLEAN, last \in LastTemperatures :
          /\ config = [ScheduleEnabled |-> enabled, Schedule |-> schedule,
                       LastTemperature |-> last]
          /\ isRunning = enabled
          /\ loops = IF enabled
                     THEN [NoLoops EXCEPT ![1] = [pc |-> "select", tick |-> FALSE]]
                     ELSE NoLoops
          /\ ui = IdleUi(schedule)
    /\ applies = << >>
    /\ now = [hour |-> 12, minute |-> 0]
    /\ nlTemperature = RatInt(DefaultTemperature)
    /\ display = RatInt(MaxTemp)
    /\ gm = NewGammaManager("x11")
    /\ call = [fn |-> "none"]

\* variant: the end moved to the next day is written back to the configuration
CallGetNextScheduleChange_StoresConfig(nowMinutes) ==
    /\ call.fn = "none"
    /\ call' = [fn |-> "GetNextScheduleChange", now |-> nowMinutes,
                result |-> GetNextScheduleChange(config, nowMinutes)]
    /\ config' = [config EXCEPT !.Schedule.EndTime = config.Schedule.StartTime]
    /\ UNCHANGED << isRunning, loops, ui, applies, now, nlTemperature, display, gm >>

CallGetNextScheduleChange(nowMinutes) ==
    /\ call.fn = "none"
    /\ call' = [fn |-> "GetNextScheduleChange", now |-> nowMinutes,
                result |-> GetNextScheduleChange(config, nowMinutes)]
    /\ UNCHANGED << config, isRunning, loops, ui, applies, now, nlTemperature, display, gm >>

NextNext == \E nowMinutes \in 0..(MinutesPerDay - 1) : CallGetNextScheduleChange(nowMinutes)

SpecNext == InitNext /\ [][NextNext]_vars

(***************************************************************************)
(* SpecClamp: NightLightConfig.SetTemperature over temperatures            *)
(***************************************************************************)
\* variant: only the lower end of the range is enforced
SetTemperature_NoUpperClamp(temp) ==
    IF RatLt(temp, RatInt(MinTemp)) THEN RatInt(MinTemp) ELSE temp

\* NightLightConfig.SetTemperature
SetTemperature(temp) ==
    IF RatLt(temp, RatInt(MinTemp)) THEN RatInt(MinTemp)
    ELSE IF RatLt(RatInt(MaxTemp), temp) THEN RatInt(MaxTemp)
    ELSE temp

\* the float64 arguments: every multiple of 50 K from -500 to 10000, and the
\* half-kelvin neighbours of the two ends of the range
ClampInputs ==
    { RatInt(50 * k) : k \in -10..200 }
        \cup { Rat(2 * MinTemp - 1, 2), Rat(2 * MinTemp + 1, 2),
               Rat(2 * MaxTemp - 1, 2), Rat(2 * MaxTemp + 1, 2) }

InitClamp ==
    /\ StoppedScheduler(DefaultSchedule)
    /\ call = [fn |-> "none"]

CallSetTemperature(temp) ==
    /\ call.fn = "none"
    /\ nlTemperature' = SetTemperature(temp)
    /\ call' = [fn |-> "SetTemperature", temp |-> temp]
    /\ UNCHANGED << config, isRunning, loops, ui, applies, now, display, gm >>

NextClamp == \E temp \in ClampInputs : CallSetTemperature(temp)

SpecClamp == InitClamp /\ [][NextClamp]_vars

(***************************************************************************)
(* SpecRGB: temperatureToRGB and rgbToTemperature                          *)
(***************************************************************************)
\* the float64 values of the colour conversion are kept in thousandths
Milli == 1000

\* how far, in thousandths, math.Log and math.Pow may lie from the series below
MathErrors == { -5, 0, 5 }

\* the largest k with 2^k * p <= x
RECURSIVE Log2Floor(_, _)
Log2Floor(x, p) == IF 2 * p > x THEN 0 ELSE 1 + Log2Floor(x, 2 * p)

RECURSIVE Pow2(_)
Pow2(k) == IF k = 0 THEN 1 ELSE 2 * Pow2(k - 1)

\* math.Log for x >= 1: ln x = k ln 2 + 2 atanh((m - 1) / (m + 1)), x = 2^k m
MathLog(x, e) ==
    LET k  == Log2Floor(x, Milli)
        p  == Pow2(k) * Milli
        z  == ((x - p) * Milli) \div (x + p)
        z2 == (z * z) \div Milli
        z3 == (z * z2) \div Milli
        z5 == (z3 * z2) \div Milli
        z7 == (z5 * z2) \div Milli
    IN  (693147 * k) \div Milli + 2 * (z + z3 \div 3 + z5 \div 5 + z7 \div 7) + e

\* e^(-u) for 0 <= u < 1, by its series: term is u^k / k!
RECURSIVE ExpSeries(_, _, _, _)
ExpSeries(u, term, k, sign) ==
    IF k > 9 THEN 0
    ELSE sign * term + ExpSeries(u, (term * u) \div (Milli * (k + 1)), k + 1, -sign)

\* math.Pow(x, -exponent) for x >= 1, exponent given in millionths
MathPow(x, exponent, e) ==
    LET u == (exponent * MathLog(x, 0)) \div (Milli * Milli)
    IN  ExpSeries(u, Milli, 0, 1) + e

\* if v < lo { v = lo }; if v > hi { v = hi }
Clamp(v, lo, hi) == IF v < lo THEN lo ELSE IF v > hi THEN hi ELSE v

\* the red component before the minimum is applied; temp is Kelvin / 100
RedChannel(temp, e) ==
    IF temp <= 66 * Milli THEN Milli
    ELSE Clamp((329699 * MathPow(temp - 60 * Milli, 133205, e)) \div Milli, 0, Milli)

GreenChannel(temp, e) ==
    IF temp <= 66 * Milli
    THEN Clamp((99471 * MathLog(temp, e)) \div Milli - 161120, 0, 255 * Milli) \div 255
    ELSE Clamp((288122 * MathPow(temp - 60 * Milli, 75515, e)) \div Milli, 0, Milli)

BlueChannel(temp, e) ==
    IF temp >= 66 * Milli THEN Milli
    ELSE IF temp <= 19 * Milli THEN 0
    ELSE Clamp((138518 * MathLog(temp - 10 * Milli, e)) \div Milli - 305045, 0, 255 * Milli)
             \div 255

\* const minGamma = 0.3
minGamma == 300

\* variant: the components are returned as computed
temperatureToRGB_NoMinGamma(kelvin, e) ==
    [r |-> RedChannel(kelvin * 10, e), g |-> GreenChannel(kelvin * 10, e),
     b |-> BlueChannel(kelvin * 10, e)]

\* GammaManager.temperatureToRGB; kelvin * 10 is temp / 100 in thousandths
temperatureToRGB(kelvin, e) ==
    [r |-> IF RedChannel(kelvin * 10, e) < minGamma THEN minGamma
           ELSE RedChannel(kelvin * 10, e),
     g |-> IF GreenChannel(kelvin * 10, e) < minGamma THEN minGamma
           ELSE GreenChannel(kelvin * 10, e),
     b |-> IF BlueChannel(kelvin * 10, e) < minGamma THEN minGamma
           ELSE BlueChannel(kelvin * 10, e)]

\* variant: a bright red and green alone make the estimate 6500
rgbToTemperature_RedGreenFirst(r, g, b) ==
    IF r >= 950 /\ g >= 950 THEN 6500
    ELSE IF b >= 900 THEN 6500
    ELSE IF b >= 800 THEN 5500
    ELSE IF b >= 700 THEN 4500
    ELSE IF b >= 600 THEN 4000
    ELSE IF b >= 500 THEN 3500
    ELSE 3000

\* GammaManager.rgbToTemperature, on components in thousandths
rgbToTemperature(r, g, b) ==
    IF r >= 950 /\ g >= 950 /\ b >= 950 THEN 6500
    ELSE IF b >= 900 THEN 6500
    ELSE IF b >= 800 THEN 5500
    ELSE IF b >= 700 THEN 4500
    ELSE IF b >= 600 THEN 4000
    ELSE IF b >= 500 THEN 3500
    ELSE 3000

\* the temperatures converted: every multiple of 50 K of the documented range
KelvinInputs == { 50 * k : k \in 20..800 }

\* the components estimated: both sides of every threshold
ChannelInputs ==
    { 0, 300, 499, 500, 599, 600, 699, 700, 799, 800, 899, 900, 949, 950, 1000 }

InitRGB ==
    /\ StoppedScheduler(DefaultSchedule)
    /\ call = [fn |-> "none"]

CallTemperatureToRGB(kelvin, e) ==
    /\ call.fn = "none"
    /\ call' = [fn |-> "temperatureToRGB", temp |-> kelvin,
                result |-> temperatureToRGB(kelvin, e)]
    /\ UNCHANGED << config, isRunning, loops, ui, applies, now, nlTemperature, display, gm >>

CallRgbToTemperature(r, g, b) ==
    /\ call.fn = "none"
    /\ call' = [fn |-> "rgbToTemperature", r |-> r, g |-> g, b |-> b,
                result |-> rgbToTemperature(r, g, b)]
    /\ UNCHANGED << config, isRunning, loops, ui, applies, now, nlTemperature, display, gm >>

NextRGB ==
    \/ \E kelvin \in KelvinInputs, e \in MathErrors : CallTemperatureToRGB(kelvin, e)
    \/ \E r \in ChannelInputs, g \in ChannelInputs, b \in ChannelInputs :
          CallRgbToTemperature(r, g, b)

SpecRGB == InitRGB /\ [][NextRGB]_vars

(***************************************************************************)
(* SpecGamma: GammaManager.ApplyTemperature over command outcomes          *)
(***************************************************************************)
\* the displays detectDisplays can find (at least one: "eDP-1" is the default)
MaxDisplays == 2

\* the monitor goroutines the model lets run at once
MaxMonitors == 3

\* for each detected display, whether its xrandr command succeeds
DisplayOutcomes == UNION { [1..n -> BOOLEAN] : n \in 1..MaxDisplays }

\* the methods of applyWaylandGamma in the order of its six tests
WaylandMethods ==
    << "compositor override", "GNOME Mutter", "KDE KWin", "DDC/CI", "color overlay",
       "XWayland" >>

\* for each method, whether its try function returns true
MethodOutcomes == [1..Len(WaylandMethods) -> BOOLEAN]

WaylandError == "no se pudo aplicar gamma en Wayland"

\* applyX11Gamma: a display whose command fails is only reported
applyX11Gamma(displayOk) ==
    [err |-> NoError, tried |-> << >>, applied |-> { d \in DOMAIN displayOk : displayOk[d] }]

RECURSIVE TryWaylandFrom(_, _, _)
TryWaylandFrom(methodOk, i, tried) ==
    IF i > Len(WaylandMethods)
    THEN [err |-> WaylandError, tried |-> tried, applied |-> { }]
    ELSE IF methodOk[i]
    THEN [err |-> NoError, tried |-> Append(tried, WaylandMethods[i]), applied |-> { i }]
    ELSE TryWaylandFrom(methodOk, i + 1, Append(tried, WaylandMethods[i]))

\* variant: every method is run, the result is that of the last one
applyWaylandGamma_NoShortCircuit(methodOk) ==
    [err     |-> IF \E i \in DOMAIN methodOk : methodOk[i] THEN NoError ELSE WaylandError,
     tried   |-> WaylandMethods,
     applied |-> { i \in DOMAIN methodOk : methodOk[i] }]

\* applyWaylandGamma: the six methods in order, up to the first that succeeds
applyWaylandGamma(methodOk) == TryWaylandFrom(methodOk, 1, << >>)

\* GammaManager.ApplyTemperature
ApplyTemperature(protocol, displayOk, methodOk) ==
    IF protocol = "wayland" THEN applyWaylandGamma(methodOk) ELSE applyX11Gamma(displayOk)

InitGamma ==
    /\ config = [ScheduleEnabled |-> FALSE, Schedule |-> DefaultSchedule]
    /\ isRunning = FALSE
    /\ loops = NoLoops
    /\ ui = IdleUi(DefaultSchedule)
    /\ applies = << >>
    /\ now = [hour |-> 12, minute |-> 0]
    /\ nlTemperature = RatInt(DefaultTemperature)
    /\ display = RatInt(MaxTemp)
    /\ call = [fn |-> "none"]
    /\ \E protocol \in {"x11", "wayland"} : gm = NewGammaManager(protocol)

\* a call of ApplyTemperature on the manager: on Wayland applyWaylandGamma
\* begins with disableSystemNightLight
GammaApply(displayOk, methodOk) ==
    /\ gm.monitors < MaxMonitors
    /\ call' = [fn |-> "ApplyTemperature", protocol |-> gm.protocol,
                displayOk |-> displayOk, methodOk |-> methodOk,
                result |-> ApplyTemperature(gm.protocol, displayOk, methodOk)]
    /\ gm' = IF gm.protocol = "wayland" THEN disableSystemNightLight(gm) ELSE gm
    /\ UNCHANGED << config, isRunning, loops, ui, applies, now, nlTemperature, display >>

CallApplyTemperature(displayOk, methodOk) ==
    /\ call.fn = "none"
    /\ GammaApply(displayOk, methodOk)

NextGamma ==
    \E displayOk \in DisplayOutcomes, methodOk \in MethodOutcomes :
        CallApplyTemperature(displayOk, methodOk)

SpecGamma == InitGamma /\ [][NextGamma]_vars

(***************************************************************************)
(* SpecMonitor: ApplyTemperature called again and again                    *)
(***************************************************************************)
NextMonitor ==
    \E displayOk \in DisplayOutcomes, methodOk \in MethodOutcomes :
        GammaApply(displayOk, methodOk)

SpecMonitor == InitGamma /\ [][NextMonitor]_vars

(***************************************************************************)
(* Spec: the scheduler, its goroutines and the foreground thread           *)
(***************************************************************************)
\* the schedules the foreground thread writes while the scheduler runs
AltSchedule ==
    [StartTime |-> FormatTime(0, 0), EndTime |-> FormatTime(6, 0),
     NightTemp |-> 3000, DayTemp |-> 6500, TransitionTime |-> 30]

UiSchedules == { DefaultSchedule, AltSchedule }

\* the instants time.Now() is sampled at, in the order the clock passes them
ClockSamples ==
    << [hour |-> 3, minute |-> 0], [hour |-> 12, minute |-> 0], [hour |-> 20, minute |-> 15] >>

LiveLoops(ls) == { l \in LoopIds : ls[l].pc \notin {"none", "stopped"} }

CanSpawn(ls) == \E l \in LoopIds : ls[l].pc = "none"

NewestLoop(ls) == Cardinality({ l \in LoopIds : ls[l].pc # "none" })

\* variant: the goroutine goes straight to its select
Spawn_NoInitialApply(ls) ==
    [ls EXCEPT ![NewestLoop(ls) + 1] = [pc |-> "select", tick |-> FALSE]]

\* go func() { s.applyCurrentTemperature(); ticker := ...; for { select ... } }()
Spawn(ls) ==
    [ls EXCEPT ![NewestLoop(ls) + 1] = [pc |-> "init", tick |-> FALSE]]

\* variant: Start without the isRunning test
SchedStart_NoRunningCheck(enabled, running, ls) ==
    IF ~enabled
    THEN [isRunning |-> running, loops |-> ls, early |-> TRUE]
    ELSE [isRunning |-> TRUE, loops |-> Spawn(ls), early |-> FALSE]

\* variant: Start without the ScheduleEnabled test
SchedStart_NoEnabledCheck(enabled, running, ls) ==
    IF running
    THEN [isRunning |-> running, loops |-> ls, early |-> TRUE]
    ELSE [isRunning |-> TRUE, loops |-> Spawn(ls), early |-> FALSE]

\* Scheduler.Start
SchedStart(enabled, running, ls) ==
    IF running \/ ~enabled
    THEN [isRunning |-> running, loops |-> ls, early |-> TRUE]
    ELSE [isRunning |-> TRUE, loops |-> Spawn(ls), early |-> FALSE]

\* variant: Stop returns without handing the signal to the loop
SchedStop_NoWait(running) ==
    IF ~running
    THEN [isRunning |-> running, pc |-> "idle", early |-> TRUE]
    ELSE [isRunning |-> FALSE, pc |-> "Stop_ret", early |-> FALSE]

\* variant: Stop without the isRunning test
SchedStop_NoRunningCheck(running) ==
    [isRunning |-> FALSE, pc |-> "Stop_send", early |-> FALSE]

\* Scheduler.Stop up to its send on the unbuffered stopChannel
SchedStop(running) ==
    IF ~running
    THEN [isRunning |-> running, pc |-> "idle", early |-> TRUE]
    ELSE [isRunning |-> FALSE, pc |-> "Stop_send", early |-> FALSE]

\* a Start that is about to spawn needs a free goroutine slot of the model
StartFits(enabled, running, ls) == (enabled /\ ~running) => CanSpawn(ls)

\* variant: the loop may use a copy of a schedule taken earlier
ReadableSchedules_Stale == { config.Schedule, DefaultSchedule, AltSchedule }

\* schedule := s.config.Schedule, a plain struct copy: while
\* UpdateScheduleConfig is storing the five fields, each field read is the old
\* or the new value
ReadableSchedules ==
    IF ui.pc = "USC_write"
    THEN { [StartTime      |-> a.StartTime,      EndTime |-> b.EndTime,
            NightTemp      |-> c.NightTemp,      DayTemp |-> d.DayTemp,
            TransitionTime |-> e.TransitionTime] :
           a \in {config.Schedule, ui.pending}, b \in {config.Schedule, ui.pending},
           c \in {config.Schedule, ui.pending}, d \in {config.Schedule, ui.pending},
           e \in {config.Schedule, ui.pending} }
    ELSE { config.Schedule }

\* every copy of the schedule the loop can hold
LoopSchedules ==
    { [StartTime      |-> a.StartTime,      EndTime |-> b.EndTime,
       NightTemp      |-> c.NightTemp,      DayTemp |-> d.DayTemp,
       TransitionTime |-> e.TransitionTime] :
      a \in UiSchedules, b \in UiSchedules, c \in UiSchedules,
      d \in UiSchedules, e \in UiSchedules }

\* temperature := s.calculateTemperatureForTime(currentTime), with
\* currentTime := fmt.Sprintf("%02d:%02d", now.Hour(), now.Minute()), for each
\* schedule copy and each sampled instant
LoopTemperature ==
    [schedule \in LoopSchedules |->
        [t \in { ClockSamples[k] : k \in 1..Len(ClockSamples) } |->
            calculateTemperatureForTime(schedule, FormatTime(t.hour, t.minute))]]

NextClock(t) ==
    LET i == CHOOSE k \in 1..Len(ClockSamples) : ClockSamples[k] = t
    IN  ClockSamples[(i % Len(ClockSamples)) + 1]

\* NewNightLightController: the configuration as loaded, the scheduler built
\* on it and started when scheduling is enabled
Init ==
    /\ \E enabled \in BOOLEAN, schedule \in UiSchedules :
          /\ config = [ScheduleEnabled |-> enabled, Schedule |-> schedule]
          /\ isRunning = SchedStart(enabled, FALSE, NoLoops).isRunning
          /\ loops = SchedStart(enabled, FALSE, NoLoops).loops
          /\ ui = IdleUi(schedule)
    /\ applies = << >>
    /\ now = ClockSamples[1]
    /\ nlTemperature = RatInt(DefaultTemperature)
    /\ display = RatInt(MaxTemp)
    /\ gm = NewGammaManager("x11")
    /\ call = [fn |-> "none"]

----------------------------------------------------------------------------
\* the goroutine of Start

\* applyCurrentTemperature up to the call of onApply: the controller's
\* callback sets the model temperature and asks the gamma manager, which
\* may fail
ApplyCurrentTemperature(l, kind, applied) ==
    /\ Len(applies) < MaxApplies
    /\ \E schedule \in ReadableSchedules :
          LET temperature == LoopTemperature[schedule][now]
          IN  /\ applies' = Append(applies, [loop |-> l, kind |-> kind, temp |-> temperature])
              /\ nlTemperature' = SetTemperature(temperature)
              /\ display' = IF applied THEN temperature ELSE display

\* variant: the goroutine returns when onApply reports an error
AfterApply_ExitOnError(kind, applied) ==
    IF ~applied THEN "stopped"
    ELSE IF kind = "init" THEN "applying_init" ELSE "applying_tick"

\* where the goroutine is once onApply has been called: the error is only
\* printed
AfterApply(kind, applied) ==
    IF kind = "init" THEN "applying_init" ELSE "applying_tick"

LoopInitialApply(l) ==
    /\ loops[l].pc = "init"
    /\ \E applied \in BOOLEAN :
          /\ ApplyCurrentTemperature(l, "init", applied)
          /\ loops' = [loops EXCEPT ![l].pc = AfterApply("init", applied)]
    /\ UNCHANGED << config, isRunning, ui, now, call, gm >>

\* onApply returns; after the first one the ticker is created
LoopApplyReturn(l) ==
    /\ loops[l].pc \in {"applying_init", "applying_tick"}
    /\ loops' = [loops EXCEPT ![l].pc = "select"]
    /\ UNCHANGED << config, isRunning, ui, applies, now, nlTemperature, display, call, gm >>

\* the one-minute ticker puts a tick in its one-slot channel
TickerFire(l) ==
    /\ loops[l].pc \in {"select", "applying_tick"}
    /\ ~loops[l].tick
    /\ loops' = [loops EXCEPT ![l].tick = TRUE]
    /\ UNCHANGED << config, isRunning, ui, applies, now, nlTemperature, display, call, gm >>

\* variant: the tick is taken from the channel and nothing is applied
LoopTick_DropTick(l) ==
    /\ loops[l].pc = "select"
    /\ loops[l].tick
    /\ loops' = [loops EXCEPT ![l].tick = FALSE]
    /\ UNCHANGED << config, isRunning, ui, applies, now, nlTemperature, display, call, gm >>

\* case <-ticker.C
LoopTick(l) ==
    /\ loops[l].pc = "select"
    /\ loops[l].tick
    /\ \E applied \in BOOLEAN :
          /\ ApplyCurrentTemperature(l, "tick", applied)
          /\ loops' = [loops EXCEPT ![l] = [pc |-> AfterApply("tick", applied), tick |-> FALSE]]
    /\ UNCHANGED << config, isRunning, ui, now, call, gm >>

\* variant: the stop signal is only looked at when no tick is waiting
LoopReceiveStop_TicksFirst(l) ==
    /\ loops[l].pc = "select"
    /\ ~loops[l].tick
    /\ ui.pc = "Stop_send"
    /\ loops' = [loops EXCEPT ![l] = [pc |-> "stopped", tick |-> FALSE]]
    /\ ui' = [ui EXCEPT !.pc = "Stop_ret"]
    /\ UNCHANGED << config, isRunning, applies, now, nlTemperature, display, call, gm >>

\* case <-s.stopChannel: the rendezvous with the send in Stop
LoopReceiveStop(l) ==
    /\ loops[l].pc = "select"
    /\ ui.pc = "Stop_send"
    /\ loops' = [loops EXCEPT ![l] = [pc |-> "stopped", tick |-> FALSE]]
    /\ ui' = [ui EXCEPT !.pc = "Stop_ret"]
    /\ UNCHANGED << config, isRunning, applies, now, nlTemperature, display, call, gm >>

ClockAdvance ==
    /\ now' = NextClock(now)
    /\ UNCHANGED << config, isRunning, loops, ui, applies, nlTemperature, display, call, gm >>

----------------------------------------------------------------------------
\* the foreground thread: the scheduler's own operations

Start ==
    /\ ui.pc = "idle"
    /\ StartFits(config.ScheduleEnabled, isRunning, loops)
    /\ LET r == SchedStart(config.ScheduleEnabled, isRunning, loops)
       IN  /\ isRunning' = r.isRunning
           /\ loops' = r.loops
           /\ ui' = [ui EXCEPT !.op = "Start", !.early = r.early]
    /\ UNCHANGED << config, applies, now, nlTemperature, display, call, gm >>

Stop ==
    /\ ui.pc = "idle"
    /\ LET r == SchedStop(isRunning)
       IN  /\ isRunning' = r.isRunning
           /\ ui' = [ui EXCEPT !.op = "Stop", !.early = r.early, !.pc = r.pc]
    /\ UNCHANGED << config, loops, applies, now, nlTemperature, display, call, gm >>

\* variant: UpdateConfig stops a disabled scheduler but never starts one
Reconcile_StopOnly(op, enabled) ==
    IF ~enabled /\ isRunning
    THEN LET r == SchedStop(isRunning)
         IN  /\ isRunning' = r.isRunning
             /\ loops' = loops
             /\ ui' = [ui EXCEPT !.op = op, !.early = FALSE, !.pc = r.pc,
                                 !.pending = config'.Schedule]
    ELSE /\ isRunning' = isRunning
         /\ loops' = loops
         /\ ui' = [ui EXCEPT !.op = op, !.early = FALSE, !.pc = "idle",
                             !.pending = config'.Schedule]

\* the part of UpdateConfig after s.config = newConfig
Reconcile(op, enabled) ==
    IF ~enabled /\ isRunning
    THEN LET r == SchedStop(isRunning)
         IN  /\ isRunning' = r.isRunning
             /\ loops' = loops
             /\ ui' = [ui EXCEPT !.op = op, !.early = FALSE, !.pc = r.pc,
                                 !.pending = config'.Schedule]
    ELSE /\ StartFits(enabled, isRunning, loops)
         /\ LET r == SchedStart(enabled, isRunning, loops)
            IN  /\ isRunning' = r.isRunning
                /\ loops' = r.loops
                /\ ui' = [ui EXCEPT !.op = op, !.early = FALSE, !.pc = "idle",
                                    !.pending = config'.Schedule]

UpdateConfig(newConfig) ==
    /\ ui.pc = "idle"
    /\ config' = newConfig
    /\ Reconcile("UpdateConfig", newConfig.ScheduleEnabled)
    /\ UNCHANGED << applies, now, nlTemperature, display, call, gm >>

\* Stop has returned to its caller, which goes on
StopReturn ==
    /\ ui.pc = "Stop_ret"
    /\ IF ui.op = "ApplyScheduleNow"
       THEN /\ StartFits(config.ScheduleEnabled, isRunning, loops)
            /\ LET r == SchedStart(config.ScheduleEnabled, isRunning, loops)
               IN  /\ isRunning' = r.isRunning
                   /\ loops' = r.loops
       ELSE UNCHANGED << isRunning, loops >>
    /\ ui' = [ui EXCEPT !.pc = "idle"]
    /\ UNCHANGED << config, applies, now, nlTemperature, display, call, gm >>

----------------------------------------------------------------------------
\* the foreground thread: the controller's operations

EnableSchedule(enabled) ==
    /\ ui.pc = "idle"
    /\ config' = [config EXCEPT !.ScheduleEnabled = enabled]
    /\ IF enabled
       THEN /\ StartFits(TRUE, isRunning, loops)
            /\ LET r == SchedStart(TRUE, isRunning, loops)
               IN  /\ isRunning' = r.isRunning
                   /\ loops' = r.loops
                   /\ ui' = [ui EXCEPT !.op = "EnableSchedule", !.early = FALSE]
       ELSE LET r == SchedStop(isRunning)
            IN  /\ isRunning' = r.isRunning
                /\ loops' = loops
                /\ ui' = [ui EXCEPT !.op = "EnableSchedule", !.early = FALSE, !.pc = r.pc]
    /\ UNCHANGED << applies, now, nlTemperature, display, call, gm >>

\* UpdateScheduleConfig starts storing its five arguments into appConfig.Schedule
UpdateScheduleConfigBegin(schedule) ==
    /\ ui.pc = "idle"
    /\ ui' = [ui EXCEPT !.pc = "USC_write", !.op = "UpdateScheduleConfig",
                        !.early = FALSE, !.pending = schedule]
    /\ UNCHANGED << config, isRunning, loops, applies, now, nlTemperature, display, call, gm >>

\* the five stores are done; Save; scheduler.UpdateConfig(appConfig)
UpdateScheduleConfigEnd ==
    /\ ui.pc = "USC_write"
    /\ config' = [config EXCEPT !.Schedule = ui.pending]
    /\ Reconcile("UpdateScheduleConfig", config.ScheduleEnabled)
    /\ UNCHANGED << applies, now, nlTemperature, display, call, gm >>

\* variant: ApplyScheduleNow without the ScheduleEnabled test
ApplyScheduleNowError_NoCheck(enabled) == NoError

\* the error ApplyScheduleNow returns
ApplyScheduleNowError(enabled) ==
    IF ~enabled THEN "la programación automática está deshabilitada" ELSE NoError

ApplyScheduleNow ==
    /\ ui.pc = "idle"
    /\ IF ApplyScheduleNowError(config.ScheduleEnabled) # NoError
       THEN /\ ui' = [ui EXCEPT !.op = "ApplyScheduleNow", !.early = TRUE]
            /\ UNCHANGED << isRunning, loops >>
       ELSE IF isRunning
       THEN LET r == SchedStop(isRunning)
            IN  /\ isRunning' = r.isRunning
                /\ loops' = loops
                /\ ui' = [ui EXCEPT !.op = "ApplyScheduleNow", !.early = FALSE, !.pc = r.pc]
       ELSE /\ StartFits(config.ScheduleEnabled, isRunning, loops)
            /\ LET r == SchedStart(config.ScheduleEnabled, isRunning, loops)
               IN  /\ isRunning' = r.isRunning
                   /\ loops' = r.loops
                   /\ ui' = [ui EXCEPT !.op = "ApplyScheduleNow", !.early = FALSE]
    /\ UNCHANGED << config, applies, now, nlTemperature, display, call, gm >>

----------------------------------------------------------------------------
Next ==
    \/ \E l \in LoopIds : LoopInitialApply(l)
    \/ \E l \in LoopIds : LoopApplyReturn(l)
    \/ \E l \in LoopIds : TickerFire(l)
    \/ \E l \in LoopIds : LoopTick(l)
    \/ \E l \in LoopIds : LoopReceiveStop(l)
    \/ ClockAdvance
    \/ Start
    \/ Stop
    \/ \E enabled \in BOOLEAN, schedule \in UiSchedules :
          UpdateConfig([ScheduleEnabled |-> enabled, Schedule |-> schedule])
    \/ StopReturn
    \/ \E enabled \in BOOLEAN : EnableSchedule(enabled)
    \/ \E schedule \in UiSchedules : UpdateScheduleConfigBegin(schedule)
    \/ UpdateScheduleConfigEnd
    \/ ApplyScheduleNow

Spec == Init /\ [][Next]_vars

(***************************************************************************)
(* SpecFair: the scheduler under the scheduling the Go runtime provides    *)
(***************************************************************************)
\* the record of effector invocations keeps the latest MaxApplies of them
DropOldestApply ==
    /\ Len(applies) = MaxApplies
    /\ applies' = Tail(applies)
    /\ UNCHANGED << config, isRunning, loops, ui, now, nlTemperature, display, call, gm >>

NextFair ==
    \/ \E l \in LoopIds : LoopInitialApply(l)
    \/ \E l \in LoopIds : LoopApplyReturn(l)
    \/ \E l \in LoopIds : TickerFire(l)
    \/ \E l \in LoopIds : LoopTick(l)
    \/ \E l \in LoopIds : LoopReceiveStop(l)
    \/ ClockAdvance
    \/ DropOldestApply
    \/ Start
    \/ Stop
    \/ StopReturn

\* a runnable goroutine runs, the ticker keeps firing, an effector call
\* returns, and a select that is offered the stop signal again and again
\* takes it (the choice among ready cases is random)
FairLoops ==
    \A l \in LoopIds :
        /\ WF_vars(LoopInitialApply(l))
        /\ WF_vars(LoopApplyReturn(l))
        /\ WF_vars(TickerFire(l))
        /\ WF_vars(LoopTick(l))
        /\ SF_vars(LoopReceiveStop(l))

SpecFair == Init /\ [][NextFair]_vars /\ FairLoops /\ WF_vars(DropOldestApply)

(***************************************************************************)
(* SpecManual: the manual controls of the controller beside the scheduler  *)
(***************************************************************************)
\* the temperatures the slider is moved to
ManualTemperatures == { RatInt(4000) }

\* NightLightController.UpdateTemperature (the saved LastTemperature is not
\* read by the scheduler)
UpdateTemperature(temp) ==
    /\ ui.pc = "idle"
    /\ nlTemperature' = SetTemperature(temp)
    /\ UNCHANGED << config, isRunning, loops, ui, applies, now, display, call, gm >>

\* NightLightController.ApplyNightLight: the gamma manager is asked for
\* config.Temperature and may fail
ApplyNightLight ==
    /\ ui.pc = "idle"
    /\ \E applied \in BOOLEAN : display' = IF applied THEN nlTemperature ELSE display
    /\ call' = [fn |-> "ApplyNightLight"]
    /\ UNCHANGED << config, isRunning, loops, ui, applies, now, nlTemperature, gm >>

\* NightLightController.ResetNightLight: gamma 1.0:1.0:1.0 (the neutral
\* 6500 K) unless the gamma manager fails; config.Reset() in both cases
ResetNightLight ==
    /\ ui.pc = "idle"
    /\ \E applied \in BOOLEAN : display' = IF applied THEN RatInt(MaxTemp) ELSE display
    /\ nlTemperature' = RatInt(MaxTemp)
    /\ call' = [fn |-> "ResetNightLight"]
    /\ UNCHANGED << config, isRunning, loops, ui, applies, now, gm >>

NextManual ==
    \/ \E l \in LoopIds : LoopInitialApply(l)
    \/ \E l \in LoopIds : LoopApplyReturn(l)
    \/ \E l \in LoopIds : TickerFire(l)
    \/ \E l \in LoopIds : LoopTick(l)
    \/ \E l \in LoopIds : LoopReceiveStop(l)
    \/ ClockAdvance
    \/ DropOldestApply
    \/ Stop
    \/ StopReturn
    \/ \E schedule \in UiSchedules : UpdateScheduleConfigBegin(schedule)
    \/ UpdateScheduleConfigEnd
    \/ \E temp \in ManualTemperatures : UpdateTemperature(temp)
    \/ ApplyNightLight
    \/ ResetNightLight

SpecManual == Init /\ [][NextManual]_vars

(***************************************************************************)
(* SpecTray: the system-tray menu beside the window and the scheduler      *)
(***************************************************************************)
\* the presets of the menu: warm, medium, neutral, day
PresetTemperatures == { 2700, 3500, 5000, 6500 }

\* SystrayManager.applyTemperaturePreset, in the goroutine of its menu item:
\* the preset is stored in config.Temperature, then ApplyNightLight
applyTemperaturePreset(temperature) ==
    /\ nlTemperature' = RatInt(temperature)
    /\ \E applied \in BOOLEAN : display' = IF applied THEN RatInt(temperature) ELSE display
    /\ call' = [fn |-> "applyTemperaturePreset"]
    /\ UNCHANGED << config, isRunning, loops, ui, applies, now, gm >>

NextTray ==
    \/ \E l \in LoopIds : LoopInitialApply(l)
    \/ \E l \in LoopIds : LoopApplyReturn(l)
    \/ \E l \in LoopIds : TickerFire(l)
    \/ \E l \in LoopIds : LoopTick(l)
    \/ ClockAdvance
    \/ DropOldestApply
    \/ \E temp \in ManualTemperatures : UpdateTemperature(temp)
    \/ ApplyNightLight
    \/ ResetNightLight
    \/ \E temperature \in PresetTemperatures : applyTemperaturePreset(temperature)

SpecTray == Init /\ [][NextTray]_vars

(***************************************************************************)
(* SpecController: the scheduler driven through the controller only        *)
(***************************************************************************)
NextController ==
    \/ \E l \in LoopIds : LoopInitialApply(l)
    \/ \E l \in LoopIds : LoopApplyReturn(l)
    \/ \E l \in LoopIds : TickerFire(l)
    \/ \E l \in LoopIds : LoopTick(l)
    \/ \E l \in LoopIds : LoopReceiveStop(l)
    \/ ClockAdvance
    \/ DropOldestApply
    \/ StopReturn
    \/ \E enabled \in BOOLEAN : EnableSchedule(enabled)
    \/ \E schedule \in UiSchedules : UpdateScheduleConfigBegin(schedule)
    \/ UpdateScheduleConfigEnd
    \/ ApplyScheduleNow

SpecController == Init /\ [][NextController]_vars

(***************************************************************************)
(* Claims on calculateTemperatureForTime (SpecCalc)                        *)
(***************************************************************************)
CalcCalled == call.fn = "calculateTemperatureForTime"

CallMinutes == timeToMinutes(call.time)

StartMinutes == timeToMinutes(config.Schedule.StartTime)

EndMinutes == timeToMinutes(config.Schedule.EndTime)

\* m lies on the clock-wise walk from a to b, both ends included
InWindow(m, a, b) == IF a <= b THEN a <= m /\ m <= b ELSE m >= a \/ m <= b

\* C1: with TransitionTime T > 0, for every minute m of the night period whose
\* offset d = (m - start) mod 1440 is at most T, calculateTemperatureForTime
\* returns DayTemp + (NightTemp - DayTemp) * d / T, also when start + T wraps
\* past midnight.
C1_EntryInterpolation ==
    (CalcCalled /\ config.Schedule.TransitionTime > 0) =>
        LET T == config.Schedule.TransitionTime
            d == (CallMinutes - StartMinutes) % MinutesPerDay
        IN  (InWindow(CallMinutes, StartMinutes, EndMinutes) /\ d <= T) =>
                call.result = Rat(config.Schedule.DayTemp * T
                                  + (config.Schedule.NightTemp - config.Schedule.DayTemp) * d, T)

\* C2: for 20:00-07:00, night 3200K, day 6500K, T = 30, every minute strictly
\* between 06:30 and 07:00 yields a temperature strictly between 3200 and 6500
\* that does not decrease as time advances.
C2_ExitTransitionGradual ==
    (CalcCalled /\ config.Schedule = DefaultSchedule
                /\ 6 * 60 + 30 < CallMinutes /\ CallMinutes < 7 * 60) =>
        /\ RatLt(RatInt(3200), call.result)
        /\ RatLt(call.result, RatInt(6500))
        /\ \A later \in ClockStrings :
              (CallMinutes < timeToMinutes(later) /\ timeToMinutes(later) < 7 * 60) =>
                  RatLe(call.result, calculateTemperatureForTime(config.Schedule, later))

\* C3: for 20:00-07:00, night 3200K, day 6500K, T = 30, the temperature for
\* "07:00" is the full day temperature 6500.
C3_DayTemperatureAtEnd ==
    (CalcCalled /\ config.Schedule = DefaultSchedule /\ call.time = FormatTime(7, 0)) =>
        call.result = RatInt(6500)

C5_NightWindowTest ==
    CalcCalled =>
        LET m       == CallMinutes
            claimed == IF StartMinutes > EndMinutes
                       THEN m >= StartMinutes \/ m <= EndMinutes
                       ELSE StartMinutes <= m /\ m <= EndMinutes
        IN  /\ call.night = claimed
            /\ call.night = ((m - StartMinutes) % MinutesPerDay
                               <= (EndMinutes - StartMinutes) % MinutesPerDay)
            /\ (m = StartMinutes \/ m = EndMinutes) => call.night
            /\ (StartMinutes = 1200 /\ EndMinutes = 420) =>
                  /\ (m = 1380 => call.night)
                  /\ (m = 720 => ~call.night)
                  /\ (m = 420 => call.night)
                  /\ (m = 1199 => ~call.night)
            /\ (config.Schedule.TransitionTime = 0
                  /\ config.Schedule.NightTemp # config.Schedule.DayTemp) =>
                  ((call.result = RatInt(config.Schedule.NightTemp)) <=> claimed)

C5_Witness ==
    /\ CalcCalled
    /\ config.Schedule = DefaultSchedule
    /\ call.time = FormatTime(7, 0)
    /\ call.night

(***************************************************************************)
(* Claims on calculateTransitionProgress (SpecProgress)                    *)
(***************************************************************************)
\* C6: calculateTransitionProgress is 0 at the exact start of the window, 1 at
\* its exact end, 1 when the duration is zero or negative, and otherwise
\* elapsed/duration clamped to [0,1], duration and elapsed being taken across
\* midnight when the window wraps.
C6_TransitionProgress ==
    call.fn = "calculateTransitionProgress" =>
        LET wraps    == call.crossesMidnight /\ call.start > call.end
            duration == IF wraps THEN (call.end - call.start) % MinutesPerDay
                        ELSE call.end - call.start
            elapsed  == IF wraps THEN (call.current - call.start) % MinutesPerDay
                        ELSE call.current - call.start
        IN  /\ RatLe(RatInt(0), call.result) /\ RatLe(call.result, RatInt(1))
            /\ duration <= 0 => call.result = RatInt(1)
            /\ (duration > 0 /\ call.current = call.start) => call.result = RatInt(0)
            /\ (duration > 0 /\ call.current = call.end) => call.result = RatInt(1)
            /\ (duration > 0 /\ elapsed < 0) => call.result = RatInt(0)
            /\ (duration > 0 /\ elapsed > duration) => call.result = RatInt(1)
            /\ (duration > 0 /\ 0 <= elapsed /\ elapsed <= duration) =>
                  call.result = Rat(elapsed, duration)

C6_Witness ==
    /\ call.fn = "calculateTransitionProgress"
    /\ call.crossesMidnight
    /\ call.start = 1430 /\ call.end = 20 /\ call.current = 0
    /\ call.result = Rat(1, 3)

(***************************************************************************)
(* Claims on Start and Stop (Spec)                                         *)
(***************************************************************************)
\* the positions in the log of effector invocations made by loop l as its
\* initial apply ("init") or on a tick ("tick")
AppliesBy(l, kind) ==
    { i \in DOMAIN applies : applies[i].loop = l /\ applies[i].kind = kind }

StartReturned == ui.pc = "idle" /\ ui.op = "Start"

\* C7: Start() called while the scheduler is already running, or while
\* config.ScheduleEnabled is false, is a no-op: isRunning keeps its value, no
\* background loop is spawned and no effector invocation results from the
\* call. Equally, whichever operation reaches Start, a loop is spawned only by
\* a step taken while not running and with scheduling enabled.
C7_StartNoop ==
    [][ /\ (Start /\ (isRunning \/ ~config.ScheduleEnabled)) =>
              /\ isRunning' = isRunning
              /\ loops' = loops
              /\ applies' = applies
              /\ nlTemperature' = nlTemperature
              /\ display' = display
              /\ ui'.early
        /\ (\E l \in LoopIds : loops[l].pc = "none" /\ loops'[l].pc # "none") =>
              /\ ~isRunning
              /\ config'.ScheduleEnabled
              /\ isRunning' ]_vars

C7_Witness ==
    /\ StartReturned
    /\ ui.early
    /\ isRunning
    /\ \E l \in LoopIds : loops[l].pc = "select" /\ AppliesBy(l, "init") # {}

\* C8: calling Start() twice in a row has the same observable effect as
\* calling it once: after any sequence of Start calls without an intervening
\* Stop there is exactly one background loop, and that loop makes exactly one
\* immediate apply.
C8_StartIdempotent ==
    /\ isRunning => Cardinality(LiveLoops(loops)) = 1
    /\ (StartReturned /\ config.ScheduleEnabled) =>
          /\ isRunning
          /\ LiveLoops(loops) = { NewestLoop(loops) }
    /\ \A l \in LoopIds :
          /\ Cardinality(AppliesBy(l, "init")) <= 1
          /\ loops[l].pc \in {"none", "init"} => AppliesBy(l, "init") = {}
          /\ loops[l].pc \notin {"none", "init"} => Cardinality(AppliesBy(l, "init")) = 1

C8_Witness ==
    /\ StartReturned
    /\ ui.early
    /\ config.ScheduleEnabled
    /\ LiveLoops(loops) = { 1 }
    /\ loops[1].pc = "select"
    /\ Cardinality(AppliesBy(1, "init")) = 1
    /\ AppliesBy(1, "tick") # {}

C10_StopAwaitsLoop ==
    /\ [](ui.pc = "Stop_ret" => (~isRunning /\ LiveLoops(loops) = {}))
    /\ []((ui.pc # "Stop_send" /\ ~isRunning) => LiveLoops(loops) = {})
    /\ [][ \A l \in LoopIds : loops[l].pc = "stopped" =>
              /\ loops'[l].pc = "stopped"
              /\ \A i \in DOMAIN applies' :
                    applies'[i].loop = l => (i \in DOMAIN applies /\ applies[i] = applies'[i]) ]_vars

C10_Witness ==
    /\ ui.pc = "Stop_ret"
    /\ ui.op = "Stop"
    /\ \E l \in LoopIds :
          /\ loops[l].pc = "stopped"
          /\ AppliesBy(l, "init") # {}
          /\ AppliesBy(l, "tick") # {}

(***************************************************************************)
(* Claims on restarts and reconfiguration (Spec)                           *)
(***************************************************************************)
\* a step that spawns a background loop
Spawns == \E l \in LoopIds : loops[l].pc = "none" /\ loops'[l].pc # "none"

\* a step in which loop l invokes the effector
Invokes(l) ==
    /\ Len(applies') = Len(applies) + 1
    /\ applies'[Len(applies')].loop = l

\* C11: Stop() immediately followed by Start() (the sequence ApplyScheduleNow
\* performs) never yields two overlapping background loops: the old loop has
\* received the stop signal before the new loop is spawned, so at most one
\* loop is ever able to invoke the effector.
C11_NoOverlappingLoops ==
    /\ [](Cardinality(LiveLoops(loops)) <= 1)
    /\ [][Spawns => \A l \in LoopIds : loops[l].pc \in {"none", "stopped"}]_vars
    /\ [][\A l \in LoopIds : Invokes(l) => LiveLoops(loops) = { l }]_vars

C11_Witness ==
    /\ ui.pc = "idle"
    /\ ui.op = "ApplyScheduleNow"
    /\ loops[1].pc = "stopped"
    /\ loops[2].pc = "applying_init"
    /\ AppliesBy(1, "init") # {}
    /\ AppliesBy(2, "init") # {}

\* the temperature the loop computes at the current instant from schedule
TemperatureNow(schedule) == LoopTemperature[schedule][now]

\* the temperature handed to the effector by the step being taken
InvokedTemperature == applies'[Len(applies')].temp

\* C12: the background loop never observes a torn configuration: every
\* temperature a tick computes is derived from a schedule that is entirely the
\* one before or entirely the one after a concurrent UpdateScheduleConfig,
\* never a mix of old and new fields.
C12_NoTornSchedule ==
    [][ (\E l \in LoopIds : Invokes(l)) =>
            InvokedTemperature \in
                { TemperatureNow(config.Schedule), TemperatureNow(ui.pending) } ]_vars

\* C13: the scheduler does not tick while scheduling is disabled: in no
\* reachable state does the background loop invoke the effector while
\* config.ScheduleEnabled is false, including the interval between
\* EnableSchedule(false) clearing the flag and the loop receiving the stop
\* signal.
C13_NoApplyWhileDisabled ==
    [][ (\E l \in LoopIds : Invokes(l)) => config.ScheduleEnabled ]_vars

\* C14: UpdateConfig(newConfig) reconciles the running state with the new
\* enabled flag: called with ScheduleEnabled = false while running it leaves
\* the scheduler Stopped; called with ScheduleEnabled = true while stopped it
\* leaves the scheduler Running and triggers an immediate apply; in the two
\* remaining cases the running state is unchanged.
C14_UpdateConfigReconciles ==
    /\ [][ \A enabled \in BOOLEAN, schedule \in UiSchedules :
             UpdateConfig([ScheduleEnabled |-> enabled, Schedule |-> schedule]) =>
                /\ config'.ScheduleEnabled = enabled /\ config'.Schedule = schedule
                /\ (~enabled /\ isRunning) =>
                      /\ ~isRunning'
                      /\ ui'.pc = "Stop_send"
                      /\ loops' = loops
                /\ (enabled /\ ~isRunning) =>
                      /\ isRunning'
                      /\ Spawns
                      /\ loops'[NewestLoop(loops')].pc = "init"
                      /\ ui'.pc = "idle"
                /\ (enabled = isRunning) =>
                      /\ isRunning' = isRunning
                      /\ loops' = loops
                      /\ ui'.pc = "idle" ]_vars
    /\ []((ui.op = "UpdateConfig" /\ ui.pc \in {"idle", "Stop_ret"}) =>
             /\ isRunning = config.ScheduleEnabled
             /\ Cardinality(LiveLoops(loops)) = (IF isRunning THEN 1 ELSE 0))

C14_Witness ==
    /\ ui.op = "UpdateConfig"
    /\ ui.pc = "idle"
    /\ isRunning
    /\ loops[1].pc = "stopped"
    /\ loops[2].pc = "applying_init"
    /\ AppliesBy(2, "init") # {}

\* a step after which some loop invokes the effector without waiting for a
\* tick: the step itself invokes it, or it leaves a loop before its initial
\* apply
AppliesAtOnce ==
    \/ \E l \in LoopIds : Invokes(l)
    \/ \E l \in LoopIds : loops'[l].pc = "init"

\* C15: a schedule edit made while the scheduler is running is re-applied
\* immediately: after UpdateScheduleConfig / UpdateConfig on a running,
\* enabled scheduler the effector is invoked with the temperature of the new
\* configuration without waiting for the next one-minute tick.
C15_EditReappliedAtOnce ==
    [][ /\ ( /\ UpdateScheduleConfigEnd
             /\ isRunning /\ config.ScheduleEnabled
             /\ config'.Schedule # config.Schedule ) => AppliesAtOnce
        /\ \A schedule \in UiSchedules :
              ( /\ UpdateConfig([ScheduleEnabled |-> TRUE, Schedule |-> schedule])
                /\ isRunning /\ config.ScheduleEnabled
                /\ config'.Schedule # config.Schedule ) => AppliesAtOnce ]_vars

\* C16: once UpdateConfig / UpdateScheduleConfig has returned, every later
\* tick of the background loop computes its temperature from the new
\* configuration; no tick that starts after the update uses the previous
\* schedule.
C16_TicksUseNewConfig ==
    [][ ((\E l \in LoopIds : Invokes(l)) /\ ui.pc # "USC_write") =>
            InvokedTemperature = TemperatureNow(config.Schedule) ]_vars

C16_Witness ==
    /\ ui.op = "UpdateScheduleConfig"
    /\ ui.pc = "idle"
    /\ config.Schedule = AltSchedule
    /\ now = [hour |-> 3, minute |-> 0]
    /\ Len(applies) = 2
    /\ applies[1] = [loop |-> 1, kind |-> "init", temp |-> RatInt(3200)]
    /\ applies[2] = [loop |-> 1, kind |-> "tick", temp |-> RatInt(3000)]
    /\ loops[1].pc = "applying_tick"

(***************************************************************************)
(* Claims on the loop's errors (Spec)                                      *)
(***************************************************************************)
\* the effector call of the step being taken by loop l reports an error: the
\* gamma manager leaves the display as it was
InvokeFails(l) == Invokes(l) /\ display' = display /\ InvokedTemperature # display

\* C17: an effector failure is never fatal to the schedule: when onApply
\* returns an error on the immediate apply or on any tick, the loop stays
\* alive, isRunning stays true and the effector is invoked again on the next
\* tick.
C17_ErrorNotFatal ==
    /\ [][ \A l \in LoopIds : InvokeFails(l) =>
              /\ loops'[l].pc \in {"applying_init", "applying_tick"}
              /\ isRunning' = isRunning ]_vars
    /\ [][ \A l \in LoopIds :
              (loops[l].pc \in {"applying_init", "applying_tick"} /\ loops'[l].pc # loops[l].pc)
                  => loops'[l].pc = "select" ]_vars
    /\ [][ \A l \in LoopIds :
              (loops[l].pc # "stopped" /\ loops'[l].pc = "stopped")
                  => (loops[l].pc = "select" /\ ui.pc = "Stop_send" /\ ~isRunning) ]_vars
    /\ [][ \A l \in LoopIds :
              (loops[l].pc = "select" /\ loops[l].tick /\ loops'[l].pc = "applying_tick")
                  => Invokes(l) ]_vars

C17_Witness ==
    /\ isRunning
    /\ loops[1].pc = "applying_tick"
    /\ now = [hour |-> 3, minute |-> 0]
    /\ Len(applies) = 2
    /\ applies[1].kind = "init" /\ applies[1].loop = 1
    /\ applies[2].kind = "tick" /\ applies[2].loop = 1
    /\ applies[1].temp # RatInt(MaxTemp)
    /\ applies[2].temp # RatInt(MaxTemp)
    /\ display = RatInt(MaxTemp)

\* C19: Stop() on an already stopped scheduler is a no-op: it returns at once
\* without sending on the stop channel and leaves isRunning false, so any
\* number of consecutive Stop calls never blocks.
C19_StopNoop ==
    /\ [][ (Stop /\ ~isRunning) =>
              /\ ui'.pc = "idle"
              /\ ui'.early
              /\ ~isRunning'
              /\ loops' = loops
              /\ applies' = applies ]_vars
    /\ [](ui.pc = "Stop_send" => Cardinality(LiveLoops(loops)) = 1)

C19_Witness ==
    /\ ui.pc = "idle"
    /\ ui.op = "Stop"
    /\ ui.early
    /\ ~isRunning
    /\ loops[1].pc = "stopped"
    /\ LiveLoops(loops) = {}

(***************************************************************************)
(* Claims on progress (SpecFair)                                           *)
(***************************************************************************)
\* C18: while the scheduler is running and no stop signal arrives, the loop
\* re-applies on every tick: each tick of the one-minute ticker leads to
\* exactly one effector invocation, so in a fair execution with no Stop the
\* effector is invoked infinitely often.
C18_TicksReapply ==
    /\ [][ \A l \in LoopIds :
              (loops[l].pc = "select" /\ loops[l].tick /\ ~loops'[l].tick) =>
                  (Invokes(l) \/ loops'[l].pc = "stopped") ]_vars
    /\ \A l \in LoopIds :
          (loops[l].pc = "select" /\ loops[l].tick)
              ~> (loops[l].pc \in {"applying_tick", "stopped"})
    /\ (<>[]isRunning) => ([]<>(\E l \in LoopIds : loops[l].pc = "applying_tick"))

C18_Witness ==
    /\ isRunning
    /\ loops[1].pc = "applying_tick"
    /\ Len(applies) = 2
    /\ applies[1] = [loop |-> 1, kind |-> "tick", temp |-> RatInt(3200)]
    /\ applies[2] = [loop |-> 1, kind |-> "tick", temp |-> RatInt(6500)]

\* C20: Stop() cannot block indefinitely when the loop is not currently
\* waiting at its select: called on a running scheduler whose loop is in the
\* middle of an effector call, Stop() still eventually returns in every fair
\* execution in which each effector call terminates.
C20_StopReturns ==
    (ui.pc = "Stop_send") ~> (ui.pc = "Stop_ret")

C20_Witness ==
    /\ ui.pc = "Stop_send"
    /\ ui.op = "Stop"
    /\ \E l \in LoopIds : loops[l].pc = "applying_tick" /\ loops[l].tick

(***************************************************************************)
(* Claims on GetNextScheduleChange (SpecNext)                              *)
(***************************************************************************)
NextCalled == call.fn = "GetNextScheduleChange"

\* today's end as an instant: moved to the next day when it is before start
EndInstant == IF EndMinutes < StartMinutes THEN EndMinutes + MinutesPerDay ELSE EndMinutes

\* C21: GetNextScheduleChange, when scheduling is disabled, always returns a
\* zero duration and the fixed label "Programación deshabilitada", whatever
\* the schedule fields contain.
C21_DisabledPreview ==
    (NextCalled /\ ~config.ScheduleEnabled) =>
        /\ call.result.duration = 0
        /\ call.result.description = "Programación deshabilitada"

C21_Witness ==
    /\ NextCalled
    /\ ~config.ScheduleEnabled
    /\ config.Schedule.StartTime = FormatTime(23, 30)
    /\ config.Schedule.NightTemp = 2000
    /\ call.now = 1000
    /\ call.result.duration = 0

NextChangeMinute == (call.now + call.result.duration) % MinutesPerDay

\* C23: the projection of GetNextScheduleChange is consistent with
\* calculateTemperatureForTime at the boundary instant: for every schedule and
\* every current time, the target temperature it reports for the next change
\* equals what calculateTemperatureForTime returns for the minute of that next
\* change (start or end).
C23_PreviewMatchesCalculation ==
    (NextCalled /\ config.ScheduleEnabled) =>
        call.result.temp =
            calculateTemperatureForTime(config.Schedule,
                FormatTime(NextChangeMinute \div 60, NextChangeMinute % 60))

\* C24: GetNextScheduleChange is read-only: in every state, calling it leaves
\* isRunning, the configuration and the stop channel unchanged, spawns no loop
\* and invokes no effector.
C24_PreviewReadOnly ==
    [][ (call' # call) =>
            /\ isRunning' = isRunning
            /\ config' = config
            /\ ui' = ui
            /\ loops' = loops
            /\ applies' = applies
            /\ nlTemperature' = nlTemperature
            /\ display' = display ]_vars

C24_Witness ==
    /\ NextCalled
    /\ isRunning
    /\ loops[1].pc = "select"
    /\ call.result.description = "Inicio filtro nocturno"
    /\ applies = << >>

(***************************************************************************)
(* Claims on the controller and the models (Spec)                          *)
(***************************************************************************)
\* C25: ApplyScheduleNow, when scheduling is disabled, is rejected with the
\* error "la programación automática está deshabilitada" and has no effect:
\* the scheduler is neither stopped nor started and no effector invocation
\* results.
C25_ApplyNowRejected ==
    [][ (ApplyScheduleNow /\ ~config.ScheduleEnabled) =>
            /\ ApplyScheduleNowError(config.ScheduleEnabled)
                  = "la programación automática está deshabilitada"
            /\ ui'.early
            /\ ui'.pc = "idle"
            /\ isRunning' = isRunning
            /\ loops' = loops
            /\ applies' = applies
            /\ display' = display ]_vars

C25_Witness ==
    /\ ui.pc = "idle"
    /\ ui.op = "ApplyScheduleNow"
    /\ ui.early
    /\ ~config.ScheduleEnabled
    /\ ~isRunning
    /\ loops[1].pc = "stopped"

(***************************************************************************)
(* Claims on timeToMinutes (SpecParse)                                     *)
(***************************************************************************)
ParseCalled == call.fn = "timeToMinutes"

\* hours*60 + minutes of the fields of each malformed string that can be
\* scanned, the others counting as 0
ScannableMinutes ==
    [timeStr \in MalformedTimes |->
        CASE timeStr = << >>                              -> 0
          [] timeStr = <<"a", "b", "c">>                  -> 0
          [] timeStr = <<"a", "b", ":", "c", "d">>        -> 0
          [] timeStr = <<":", "3", "0">>                  -> 0
          [] timeStr = <<"1", "2">>                       -> 720
          [] timeStr = <<"1", "2", ":">>                  -> 720
          [] timeStr = <<"1", "2", ":", "x", "x">>        -> 720
          [] timeStr = <<"1", "2", ":", "3", "x">>        -> 723
          [] timeStr = <<"1", "2", " ", ":", "3", "0">>   -> 720
          [] timeStr = <<"1", "2", ":", " ", "3", "0">>   -> 750
          [] timeStr = <<" ", "9", ":", "0", "5">>        -> 545
          [] timeStr = <<"7", ":", "5">>                  -> 425
          [] timeStr = <<"2", "0", ":", "0">>             -> 1200
          [] timeStr = <<"2", "5", ":", "9", "9">>        -> 1599
          [] timeStr = <<"-", "1", ":", "3", "0">>        -> -30
          [] timeStr = <<"1", "_", "2", ":", "3", "0">>   -> 0
          [] timeStr = <<"1", "2", ":", "3", "_", "0">>   -> 720
          [] timeStr = <<"1", "2", "h", "3", "0">>        -> 720]

\* C26: timeToMinutes never raises: for a well-formed "HH:MM" it returns
\* hours*60+minutes, and for a malformed string the fields it cannot scan
\* count as 0, so a fully malformed string parses as 00:00 (0 minutes).
C26_TimeToMinutes ==
    ParseCalled =>
        /\ call.result \in Int
        /\ \A h \in 0..23, m \in 0..59 :
              call.time = FormatTime(h, m) => call.result = h * 60 + m
        /\ call.time \in MalformedTimes => call.result = ScannableMinutes[call.time]
        /\ (\A i \in 1..Len(call.time) : ~IsDigit(call.time[i])) => call.result = 0

C26_Witness ==
    /\ ParseCalled
    /\ call.time = <<":", "3", "0">>
    /\ call.result = 0

(***************************************************************************)
(* Claims on GammaManager.ApplyTemperature (SpecGamma)                     *)
(***************************************************************************)
GammaCalled == call.fn = "ApplyTemperature"

\* C27: GammaManager.ApplyTemperature returns an error whenever the
\* temperature could not be applied: if the gamma command fails on every
\* detected display (X11) or every method fails (Wayland), the call returns a
\* non-nil error, so that the scheduler and the UI can see the failure.
C27_FailureReported ==
    GammaCalled =>
        /\ (call.protocol = "x11" /\ \A d \in DOMAIN call.displayOk : ~call.displayOk[d])
              => call.result.err # NoError
        /\ (call.protocol = "wayland" /\ \A i \in DOMAIN call.methodOk : ~call.methodOk[i])
              => call.result.err # NoError

ClampCalled == call.fn = "SetTemperature"

\* C29: NightLightConfig.SetTemperature(t) keeps the temperature in the valid
\* range: afterwards Temperature equals t when MinTemp <= t <= MaxTemp, MinTemp
\* when t is below the range (SetTemperature(2000) gives 3000) and MaxTemp
\* when t is above it.
C29_SetTemperatureClamps ==
    ClampCalled =>
        /\ (RatLe(RatInt(3000), call.temp) /\ RatLe(call.temp, RatInt(6500)))
              => nlTemperature = call.temp
        /\ ~RatLe(RatInt(3000), call.temp) => nlTemperature = RatInt(3000)
        /\ ~RatLe(call.temp, RatInt(6500)) => nlTemperature = RatInt(6500)
        /\ call.temp = RatInt(2000) => nlTemperature = RatInt(3000)
        /\ RatLe(RatInt(3000), nlTemperature) /\ RatLe(nlTemperature, RatInt(6500))

C29_Witness ==
    /\ ClampCalled
    /\ call.temp = RatInt(2000)
    /\ nlTemperature = RatInt(3000)

(***************************************************************************)
(* Claims on the manual controls (SpecManual)                              *)
(***************************************************************************)
\* ApplyNightLight or ResetNightLight has been used
ManualOverride == call.fn \in {"ApplyNightLight", "ResetNightLight"}

\* the scheduled temperature for the current time: that of the configured
\* schedule, or of the one UpdateScheduleConfig is replacing it with
ScheduledNow == { TemperatureNow(config.Schedule), TemperatureNow(ui.pending) }

\* C28: while automatic scheduling is running a manual temperature is only a
\* temporary override: after a manual ApplyNightLight (or ResetNightLight) the
\* next tick of the scheduler re-applies the scheduled temperature for the
\* current time, so the manual value stays in effect for at most one tick
\* interval.
C28_OverrideTemporary ==
    [][ \A l \in LoopIds :
            (LoopTick(l) /\ ManualOverride /\ isRunning) =>
                /\ Invokes(l)
                /\ InvokedTemperature \in ScheduledNow
                /\ nlTemperature' = InvokedTemperature
                /\ display' \in {display, InvokedTemperature} ]_vars

(***************************************************************************)
(* Claims on the colour conversion (SpecRGB)                               *)
(***************************************************************************)
\* C31: for every Kelvin value k in [1000, 40000], temperatureToRGB(k) returns
\* each of the three channels within [0.3, 1.0].
C31_ChannelsInRange ==
    (call.fn = "temperatureToRGB" /\ call.temp >= 1000 /\ call.temp <= 40000) =>
        /\ 300 <= call.result.r /\ call.result.r <= 1000
        /\ 300 <= call.result.g /\ call.result.g <= 1000
        /\ 300 <= call.result.b /\ call.result.b <= 1000

C31_Witness ==
    /\ call.fn = "temperatureToRGB"
    /\ call.temp = 1000
    /\ call.result = [r |-> 1000, g |-> 300, b |-> 300]

\* what rgbToTemperature returns for the components (r, g, b)
EstimateOf(r, g, b) ==
    [fn |-> "rgbToTemperature", r |-> r, g |-> g, b |-> b, result |-> rgbToTemperature(r, g, b)]

\* C32: rgbToTemperature depends only on the blue channel and maps it to one
\* of six bands: b >= 0.9 -> 6500, b >= 0.8 -> 5500, b >= 0.7 -> 4500,
\* b >= 0.6 -> 4000, b >= 0.5 -> 3500, otherwise 3000; the red and green inputs
\* never change the result.
C32_BlueBands ==
    call.fn = "rgbToTemperature" =>
        /\ call.result = CASE call.b >= 900 -> 6500
                           [] call.b >= 800 -> 5500
                           [] call.b >= 700 -> 4500
                           [] call.b >= 600 -> 4000
                           [] call.b >= 500 -> 3500
                           [] OTHER -> 3000
        /\ \A r \in ChannelInputs, g \in ChannelInputs :
              rgbToTemperature(r, g, call.b) = call.result

C32_Witness ==
    /\ call.fn = "rgbToTemperature"
    /\ call.r = 1000 /\ call.g = 1000 /\ call.b = 799
    /\ call.result = 4500

(***************************************************************************)
(* Claims on the controller's schedule operations (SpecController)         *)
(***************************************************************************)
\* C33: after every controller operation on the schedule has returned
\* (NewNightLightController, EnableSchedule, UpdateScheduleConfig,
\* ApplyScheduleNow, in any order and with any arguments),
\* scheduler.IsRunning() equals appConfig.ScheduleEnabled and exactly one
\* background loop exists when it is true, none when it is false.
C33_RunningIffEnabled ==
    ui.pc = "idle" =>
        /\ isRunning = config.ScheduleEnabled
        /\ Cardinality(LiveLoops(loops)) = IF config.ScheduleEnabled THEN 1 ELSE 0

C33_Witness ==
    /\ ui.pc = "idle"
    /\ ui.op = "ApplyScheduleNow"
    /\ ~ui.early
    /\ isRunning /\ config.ScheduleEnabled
    /\ loops[1].pc = "stopped"
    /\ LiveLoops(loops) = {2}

(***************************************************************************)
(* Claims on the preview against the night window (SpecNext)               *)
(***************************************************************************)
\* the window test of calculateTemperatureForTime at the instant of the call
NightNow == isNightPeriod(call.now, StartMinutes, EndMinutes)

\* C34: whenever the current minute is classified as night by
\* calculateTemperatureForTime's window test, GetNextScheduleChange reports the
\* end of the night filter ("Fin filtro nocturno", target dayTemp); whenever it
\* is classified as day, it reports the start ("Inicio filtro nocturno", target
\* nightTemp). This includes the after-midnight part of a window that crosses
\* midnight, e.g. 03:00 for 20:00-07:00.
C34_PreviewFollowsWindow ==
    (NextCalled /\ config.ScheduleEnabled) =>
        /\ NightNow =>
              /\ call.result.description = "Fin filtro nocturno"
              /\ call.result.temp = RatInt(config.Schedule.DayTemp)
        /\ ~NightNow =>
              /\ call.result.description = "Inicio filtro nocturno"
              /\ call.result.temp = RatInt(config.Schedule.NightTemp)

\* C36: when scheduling is enabled, the remaining duration returned by
\* GetNextScheduleChange is strictly positive and at most 24 hours, for every
\* well-formed start and end time (including start = end) and every current
\* time.
C36_DurationWithinDay ==
    (NextCalled /\ config.ScheduleEnabled) =>
        /\ call.result.duration > 0
        /\ call.result.duration <= 24 * 60

C36_Witness ==
    /\ NextCalled
    /\ config.ScheduleEnabled
    /\ config.Schedule.StartTime = config.Schedule.EndTime
    /\ call.now = StartMinutes
    /\ call.result.duration = 24 * 60

(***************************************************************************)
(* Claims on the range of calculateTemperatureForTime (SpecCalc)           *)
(***************************************************************************)
LowerTemp ==
    IF config.Schedule.NightTemp <= config.Schedule.DayTemp
    THEN config.Schedule.NightTemp ELSE config.Schedule.DayTemp

UpperTemp ==
    IF config.Schedule.NightTemp <= config.Schedule.DayTemp
    THEN config.Schedule.DayTemp ELSE config.Schedule.NightTemp

\* C35: for every schedule, every transition time and every time of day, the
\* value returned by calculateTemperatureForTime lies between
\* min(nightTemp, dayTemp) and max(nightTemp, dayTemp) inclusive; the
\* temperature passed to the effector by the scheduler therefore never leaves
\* that interval.
C35_TemperatureBetweenEnds ==
    CalcCalled =>
        /\ RatLe(RatInt(LowerTemp), call.result)
        /\ RatLe(call.result, RatInt(UpperTemp))

C35_Witness ==
    /\ CalcCalled
    /\ config.Schedule.NightTemp = 5000 /\ config.Schedule.DayTemp = 4000
    /\ config.Schedule.TransitionTime = 60
    /\ RatLt(RatInt(4000), call.result)
    /\ RatLt(call.result, RatInt(5000))

(***************************************************************************)
(* Claims on NightLightConfig.Temperature (SpecTray)                       *)
(***************************************************************************)
\* C37: NightLightConfig.Temperature stays within [MinTemp, MaxTemp]
\* (3000-6500) in every reachable state, after any sequence of UI, system-tray
\* preset, reset and scheduler operations.
C37_TemperatureInRange ==
    /\ RatLe(RatInt(3000), nlTemperature)
    /\ RatLe(nlTemperature, RatInt(6500))

(***************************************************************************)
(* Claims on the monitor goroutine (SpecMonitor)                           *)
(***************************************************************************)
\* C38: at most one maintainExclusiveControl monitor goroutine exists at any
\* time, however many times ApplyTemperature is invoked (by the user or by
\* scheduler ticks) on a Wayland session.
C38_SingleMonitor == gm.protocol = "wayland" => gm.monitors <= 1

=============================================================================
